---- MODULE Spec2Model ----
(***************************************************************************)
(* Model of src/Slack_archiver/slack_archiver.py: class SlackArchiver over *)
(* its SQLite database (tables channels and messages) and the Slack Web    *)
(* API it calls (conversations.info, conversations.history).               *)
(*                                                                         *)
(* Timestamps ("ts") are Slack's per-message time stamps; they are         *)
(* modelled as the integers 1..MaxTs.  The upstream is the environment:    *)
(* it holds, per channel, the set of posted ts; the user/text a message    *)
(* carries is chosen when it is fetched (messages can be edited upstream). *)
(* conversations.history answers as the Slack Web API does: only messages  *)
(* strictly newer than `oldest`, the most recent `limit` of them, newest   *)
(* first.                                                                  *)
(***************************************************************************)
EXTENDS Integers, Sequences, FiniteSets, TLC

\* ---------------------------------------------------------------- bounds
\* Largest timestamp the upstream hands out.
MaxTs == 3
\* The page cap passed to conversations.history (line 100).  The source
\* passes limit=50; the model scales it down so that a backlog larger than
\* one page fits in 1..MaxTs.
Limit == 2

Ts == 1..MaxTs
Channels == {"C1", "C2"}

\* SQL NULL / Python None in last_archived_timestamp.
Null == -1
\* A key the upstream message does not carry (message.get falls back).
NoField == "<absent>"
Payloads == {[user |-> "U1", text |-> "hi"], [user |-> NoField, text |-> NoField]}
\* The upstream whose messages all carry both keys and are never edited.
PlainPayloads == {[user |-> "U1", text |-> "hi"]}
ApiErrors == {"ratelimited", "channel_not_found"}

VARIABLES
    slack,           \* upstream: channel -> set of posted ts
    channels,        \* table channels: channel_id -> [channel_name, last_archived_timestamp]
    messages,        \* table messages: set of rows
    pc,              \* position of the archive_channel_messages call
    cid,             \* its channel_id argument
    last_timestamp,  \* its local last_timestamp
    page,            \* messages_result['messages']
    pre,             \* the committed tables when the call started
    outcome,         \* how the call ended (while pc = "done")
    inPass,          \* schedule_archiving is executing
    pending,         \* rows of its channel list not yet visited
    streak,          \* 1: in a pass, all runs ok, upstream quiet since it began
                     \* 2: such a pass has just completed, nothing happened since
                     \* 3: in the pass started right after it, upstream still quiet
    run2,            \* a second archive_channel_messages call, on its own
                     \* connection: [pc, cid, last_timestamp, page]
    main             \* the process main() starts: [pc, now, next_run, last_run]

vars == <<slack, channels, messages, pc, cid, last_timestamp, page, pre,
          outcome, inPass, pending, streak, run2, main>>

\* ------------------------------------------------------------- helpers
NoChannel == "-"
NoRows == [c \in {} |-> 0]
NoPre == [messages |-> {}, channels |-> NoRows]
NoRun == [pc |-> "idle", cid |-> NoChannel, last_timestamp |-> Null, page |-> <<>>]
\* main() not entered, no job scheduled.
NoMain == [pc |-> "off", now |-> 0, next_run |-> Null, last_run |-> Null]

SetMax(S) == CHOOSE x \in S : \A y \in S : y <= x

RECURSIVE NewestFirst(_)
NewestFirst(S) ==
    IF S = {} THEN <<>>
    ELSE <<SetMax(S)>> \o NewestFirst(S \ {SetMax(S)})

Take(s, n) == SubSeq(s, 1, IF Len(s) < n THEN Len(s) ELSE n)

\* dict.get(key, default)
Get(v, default) == IF v = NoField THEN default ELSE v

\* channel_info['channel']['name'] of conversations.info(channel).
conversations_info(ch) == IF ch = "C1" THEN "general" ELSE "random"

\* last_timestamp or '0'
OldestArg(lt) == IF lt = Null THEN 0 ELSE lt

\* The ts of the messages conversations.history(channel, oldest, limit)
\* returns: newer than oldest, the newest `limit` of them, newest first.
HistoryWindow(posted, oldest, limit) ==
    Take(NewestFirst({t \in posted : t > oldest}), limit)

\* The response, given what each returned message carries.
conversations_history(posted, oldest, limit, pl) ==
    LET w == HistoryWindow(posted, oldest, limit)
    IN  [i \in 1..Len(w) |-> [ts |-> w[i], user |-> pl[w[i]].user, text |-> pl[w[i]].text]]

\* The tuple bound to the INSERT of lines 104-114.
Row(ch, m) ==
    [message_id |-> m.ts, channel_id |-> ch, timestamp |-> m.ts,
     user |-> Get(m.user, "N/A"), text |-> Get(m.text, "")]

\* An INSERT that leaves conflicts to nobody: the row is added whatever the
\* table holds.
InsertPlain(tbl, row) == tbl \cup {row}

\* An INSERT OR REPLACE: the row takes the place of the one holding its key.
InsertOrReplaceRow(tbl, row) ==
    {r \in tbl : r.message_id # row.message_id} \cup {row}

\* INSERT OR IGNORE INTO messages: message_id is the PRIMARY KEY.
InsertOrIgnore(tbl, row) ==
    IF \E r \in tbl : r.message_id = row.message_id THEN tbl ELSE tbl \cup {row}

\* Lines 103-114: the first k iterations of the for loop.
RECURSIVE ForLoop(_, _, _, _)
ForLoop(tbl, ch, pg, k) ==
    IF k = 0 THEN tbl
    ELSE InsertOrIgnore(ForLoop(tbl, ch, pg, k - 1), Row(ch, pg[k]))

\* INSERT OR REPLACE INTO channels (channel_id, channel_name, last_archived_timestamp)
InsertOrReplaceChannel(tbl, ch, name, ts) ==
    [c \in (DOMAIN tbl) \cup {ch} |->
        IF c = ch THEN [channel_name |-> name, last_archived_timestamp |-> ts]
        ELSE tbl[c]]

\* An UPDATE with no WHERE clause: every row takes the value.
UpdateCursorAll(tbl, ch, ts) ==
    [c \in DOMAIN tbl |-> [tbl[c] EXCEPT !.last_archived_timestamp = ts]]

\* UPDATE channels SET last_archived_timestamp = ? WHERE channel_id = ?
UpdateCursor(tbl, ch, ts) ==
    [c \in DOMAIN tbl |->
        IF c = ch THEN [tbl[c] EXCEPT !.last_archived_timestamp = ts] ELSE tbl[c]]

\* The cursor update without the guard on an empty page.
StageCursorNoGuard(tbl, ch, pg) ==
    UpdateCursor(tbl, ch, IF pg # <<>> THEN pg[1].ts ELSE Null)

\* The cursor update taking the last message of the page.
StageCursorLast(tbl, ch, pg) ==
    IF pg # <<>> THEN UpdateCursor(tbl, ch, pg[Len(pg)].ts) ELSE tbl

\* Lines 116-125: the cursor moves to messages[0]['ts'] of a non-empty page.
StageCursor(tbl, ch, pg) ==
    IF pg # <<>> THEN UpdateCursor(tbl, ch, pg[1].ts) ELSE tbl

Db == [messages |-> messages, channels |-> channels]

\* Lines 103-125: what the connection's transaction holds once the first k
\* statements of the call have run: Len(pg) INSERTs, then the UPDATE.
StagedAfter(db, ch, pg, k) ==
    [messages |-> ForLoop(db.messages, ch, pg, IF k < Len(pg) THEN k ELSE Len(pg)),
     channels |-> IF k > Len(pg) THEN StageCursor(db.channels, ch, pg) ELSE db.channels]

\* A connection that commits whatever is staged, exception or not.
ConnExitAlwaysCommit(db, staged, raised) == staged

\* conn.commit() / the connection context manager leaving the with block:
\* commit when the body ended normally, roll back when it raised.
ConnExit(db, staged, raised) == IF raised THEN db ELSE staged

Cursor(tbl, ch) == tbl[ch].last_archived_timestamp

\* ---------------------------------------------------------------- Init
Init ==
    /\ slack = [c \in Channels |-> {}]
    /\ channels = NoRows
    /\ messages = {}
    /\ pc = "idle"
    /\ cid = NoChannel
    /\ last_timestamp = Null
    /\ page = <<>>
    /\ pre = NoPre
    /\ outcome = "none"
    /\ inPass = FALSE
    /\ pending = {}
    /\ streak = 0
    /\ run2 = NoRun
    /\ main = NoMain

\* --------------------------------------------------------- environment
\* A message is posted upstream.  Its ts is the time of posting: not older
\* than any message posted so far, and new in its channel.  A call reads
\* the upstream once, at its history call, so a post during the call acts
\* as one before it (when it precedes that read) or one after it: only
\* those are generated; with two calls in flight a post can fall between
\* their reads.
Post(ch, t) ==
    /\ pc = "idle" \/ run2.pc # "idle"
    /\ t \notin slack[ch]
    /\ \A c \in Channels : \A u \in slack[c] : u <= t
    /\ slack' = [slack EXCEPT ![ch] = @ \cup {t}]
    /\ streak' = 0
    /\ UNCHANGED <<channels, messages, pc, cid, last_timestamp, page, pre,
                   outcome, inPass, pending,
                   run2, main>>

\* ------------------------------------------------ add_channel_to_archive
Quiescent == pc = "idle" /\ ~inPass

\* Lines 60-74.
AddChannel(ch) ==
    /\ Quiescent
    /\ channels' = InsertOrReplaceChannel(channels, ch, conversations_info(ch), Null)
    /\ streak' = 0
    /\ UNCHANGED <<slack, messages, pc, cid, last_timestamp, page, pre,
                   outcome, inPass, pending,
                   run2, main>>

\* Lines 60, 75-76: conversations_info raises SlackApiError; it is caught
\* and nothing is written.
AddChannelError(ch) ==
    /\ Quiescent
    /\ streak' = 0
    /\ UNCHANGED <<slack, channels, messages, pc, cid, last_timestamp, page,
                   pre, outcome, inPass, pending,
                   run2, main>>

\* ---------------------------------------------- archive_channel_messages
\* Lines 84-93: open the connection, read the cursor.
Start(ch) ==
    /\ pc = "idle"
    /\ pc' = "fetch"
    /\ cid' = ch
    /\ last_timestamp' = IF ch \in DOMAIN channels THEN Cursor(channels, ch) ELSE Null
    /\ page' = <<>>
    /\ pre' = Db
    /\ UNCHANGED <<slack, channels, messages, outcome,
                   run2, main>>

\* A direct call.
Archive(ch) ==
    /\ ~inPass
    /\ Start(ch)
    /\ streak' = 0
    /\ UNCHANGED <<inPass, pending>>

\* Lines 97-101: the history call answers; `carried` is what a message of
\* this upstream may carry.
FetchOk(carried) ==
    /\ pc = "fetch"
    /\ \E pl \in [{t \in slack[cid] : t > OldestArg(last_timestamp)} -> carried] :
          page' = conversations_history(slack[cid], OldestArg(last_timestamp), Limit, pl)
    /\ pc' = "apply"
    /\ UNCHANGED <<slack, channels, messages, cid, last_timestamp, pre,
                   outcome, inPass, pending, streak,
                   run2, main>>

\* Lines 97-101, 128-129: the history call raises SlackApiError; it is
\* caught and printed, and the with block ends normally with nothing staged.
FetchError(kind) ==
    /\ pc = "fetch"
    /\ LET db == ConnExit(Db, StagedAfter(Db, cid, page, 0), FALSE)
       IN  messages' = db.messages /\ channels' = db.channels
    /\ pc' = "done"
    /\ outcome' = kind
    /\ UNCHANGED <<slack, cid, last_timestamp, page, pre, inPass, pending, streak,
                   run2, main>>

\* Lines 103-127: the for loop, the cursor update, conn.commit().
Commit ==
    /\ pc = "apply"
    /\ LET db == ConnExit(Db, StagedAfter(Db, cid, page, Len(page) + 1), FALSE)
       IN  messages' = db.messages /\ channels' = db.channels
    /\ pc' = "done"
    /\ outcome' = "ok"
    /\ UNCHANGED <<slack, cid, last_timestamp, page, pre, inPass, pending, streak,
                   run2, main>>

\* Lines 103-127: after k statements went through, the next statement (an
\* INSERT, the UPDATE or the commit) raises sqlite3.Error.  It is no
\* SlackApiError: it leaves the with block, which rolls back, and the call,
\* whose locals go with its frame.
StorageError(k) ==
    /\ pc = "apply"
    /\ k \in 0..(Len(page) + 1)
    /\ LET db == ConnExit(Db, StagedAfter(Db, cid, page, k), TRUE)
       IN  messages' = db.messages /\ channels' = db.channels
    /\ pc' = "done"
    /\ outcome' = "raised"
    /\ page' = <<>>
    /\ UNCHANGED <<slack, cid, last_timestamp, pre, inPass, pending, streak,
                   run2, main>>

\* The process dies inside the call: the open transaction is never
\* committed; whoever was iterating is gone too.
Crash ==
    /\ pc \in {"fetch", "apply"}
    /\ pc' = "idle"
    /\ cid' = NoChannel
    /\ last_timestamp' = Null
    /\ page' = <<>>
    /\ pre' = NoPre
    /\ outcome' = "none"
    /\ inPass' = FALSE
    /\ pending' = {}
    /\ streak' = 0
    /\ UNCHANGED <<slack, channels, messages,
                   run2, main>>

\* The call returns, or its exception propagates to the caller: out of
\* the for loop of schedule_archiving (lines 182-183), which catches nothing.
Return ==
    /\ pc = "done"
    /\ pc' = "idle"
    /\ cid' = NoChannel
    /\ last_timestamp' = Null
    /\ page' = <<>>
    /\ pre' = NoPre
    /\ IF inPass /\ outcome = "raised"
       THEN inPass' = FALSE /\ pending' = {}
       ELSE UNCHANGED <<inPass, pending>>
    /\ streak' = IF outcome = "ok" THEN streak ELSE 0
    /\ outcome' = "none"
    /\ UNCHANGED <<slack, channels, messages,
                   run2, main>>

\* ---------------------------------------------------- schedule_archiving
\* Lines 177-180: SELECT channel_id FROM channels.
PassBegin ==
    /\ Quiescent
    /\ inPass' = TRUE
    /\ pending' = DOMAIN channels
    /\ streak' = IF streak = 2 THEN 3 ELSE 1
    /\ UNCHANGED <<slack, channels, messages, pc, cid, last_timestamp, page,
                   pre, outcome,
                   run2, main>>

\* Lines 182-183: the next row of the list (the SELECT states no order).
PassNext(ch) ==
    /\ inPass
    /\ ch \in pending
    /\ Start(ch)
    /\ pending' = pending \ {ch}
    /\ UNCHANGED <<inPass, streak>>

\* Line 186: the list is exhausted; sleep, return.
PassEnd ==
    /\ inPass
    /\ pc = "idle"
    /\ pending = {}
    /\ inPass' = FALSE
    /\ streak' = IF streak \in {1, 3} THEN 2 ELSE 0
    /\ UNCHANGED <<slack, channels, messages, pc, cid, last_timestamp, page,
                   pre, outcome, pending,
                   run2, main>>

\* The operations of SlackArchiver called one after another.
Next ==
    \/ \E ch \in Channels, t \in Ts : Post(ch, t)
    \/ \E ch \in Channels : AddChannel(ch)
    \/ \E ch \in Channels : AddChannelError(ch)
    \/ \E ch \in Channels : Archive(ch)
    \/ FetchOk(Payloads)
    \/ \E kind \in ApiErrors : FetchError(kind)
    \/ Commit
    \/ \E k \in 0..(Limit + 1) : StorageError(k)
    \/ Crash
    \/ Return

Spec == Init /\ [][Next]_vars

\* Registration and the archive-all pass, against an upstream whose
\* messages are plain.
NextPass ==
    \/ \E ch \in Channels, t \in Ts : Post(ch, t)
    \/ \E ch \in Channels : AddChannel(ch)
    \/ \E ch \in Channels : AddChannelError(ch)
    \/ PassBegin
    \/ \E ch \in Channels : PassNext(ch)
    \/ FetchOk(PlainPayloads)
    \/ \E kind \in ApiErrors : FetchError(kind)
    \/ Commit
    \/ \E k \in 0..(Limit + 1) : StorageError(k)
    \/ Crash
    \/ Return
    \/ PassEnd

SpecPass == Init /\ [][NextPass]_vars

\* ------------------------------------------------------ overlapping calls
\* A second call for the channel of the call in flight, from another thread
\* or process: nothing in the code keeps it out.  Lines 84-93.
Start2(ch) ==
    /\ pc # "idle"
    /\ ch = cid
    /\ run2.pc = "idle"
    /\ run2' = [pc |-> "fetch", cid |-> ch,
                last_timestamp |-> IF ch \in DOMAIN channels
                                   THEN Cursor(channels, ch) ELSE Null,
                page |-> <<>>]
    /\ UNCHANGED <<slack, channels, messages, pc, cid, last_timestamp, page,
                   pre, outcome, inPass, pending, streak, main>>

\* Lines 97-101 of the second call.
Fetch2 ==
    /\ run2.pc = "fetch"
    /\ \E pl \in [{t \in slack[run2.cid] : t > OldestArg(run2.last_timestamp)}
                    -> PlainPayloads] :
          run2' = [run2 EXCEPT
                     !.pc = "apply",
                     !.page = conversations_history(slack[run2.cid],
                                  OldestArg(run2.last_timestamp), Limit, pl)]
    /\ UNCHANGED <<slack, channels, messages, pc, cid, last_timestamp, page,
                   pre, outcome, inPass, pending, streak, main>>

\* Lines 103-127 of the second call: its statements run in one SQLite
\* write transaction, on the tables as they are when it writes.
Commit2 ==
    /\ run2.pc = "apply"
    /\ LET db == ConnExit(Db, StagedAfter(Db, run2.cid, run2.page,
                                          Len(run2.page) + 1), FALSE)
       IN  messages' = db.messages /\ channels' = db.channels
    /\ run2' = NoRun
    /\ UNCHANGED <<slack, pc, cid, last_timestamp, page, pre, outcome, inPass,
                   pending, streak, main>>

\* Two calls for one channel, overlapping in every way.
NextOverlap ==
    \/ \E ch \in Channels, t \in Ts : Post(ch, t)
    \/ \E ch \in Channels : AddChannel(ch)
    \/ \E ch \in Channels : Archive(ch)
    \/ FetchOk(PlainPayloads)
    \/ Commit
    \/ Return
    \/ \E ch \in Channels : Start2(ch)
    \/ Fetch2
    \/ Commit2

SpecOverlap == Init /\ [][NextOverlap]_vars

\* ------------------------------------------------------------- the query
\* The timestamp column is TEXT and holds Slack's ts as received (line 109):
\* a decimal string of fixed width, zero-padded.  Position t of the model
\* stands for the ts whose last TsWidth digits are those of TsBase + t.
TsWidth == 2

TsBase == 8

Pow10(n) == IF n = 0 THEN 1 ELSE IF n = 1 THEN 10 ELSE 100

TsText(t) == [i \in 1..TsWidth |-> ((TsBase + t) \div Pow10(TsWidth - i)) % 10]

\* SQLite's BINARY collation on TEXT: the first differing character decides,
\* a proper prefix sorts first.
TextLeq(a, b) ==
    \/ a = b
    \/ \E i \in 1..Len(a) :
          /\ \A j \in 1..(i - 1) : j <= Len(b) /\ a[j] = b[j]
          /\ (i > Len(b) => FALSE)
          /\ i <= Len(b) /\ a[i] < b[i]
    \/ Len(a) < Len(b) /\ \A j \in 1..Len(a) : a[j] = b[j]

WhereAny(tbl, ch) == tbl

\* WHERE channel_id = ?, line 145.
WhereChannel(tbl, ch) == {r \in tbl : r.channel_id = ch}

\* ORDER BY timestamp, line 146.
RECURSIVE OrderByTimestamp(_)
OrderByTimestamp(rows) ==
    IF rows = {} THEN <<>>
    ELSE LET m == CHOOSE r \in rows : \A q \in rows :
                      TextLeq(TsText(r.timestamp), TsText(q.timestamp))
         IN  <<m>> \o OrderByTimestamp(rows \ {m})

\* LIMIT ? OFFSET ?, line 147: a negative limit is no limit.
LimitOffset(s, limit, offset) ==
    LET from == IF offset < 0 THEN 0 ELSE offset
        upto == IF limit < 0 \/ from + limit > Len(s) THEN Len(s)
                ELSE from + limit
    IN  SubSeq(s, from + 1, upto)

\* Lines 131-158.
get_channel_messages(channel_id, limit, offset) ==
    LET sel == LimitOffset(OrderByTimestamp(WhereChannel(messages, channel_id)),
                           limit, offset)
    IN  [i \in 1..Len(sel) |->
            [message_id |-> sel[i].message_id, timestamp |-> sel[i].timestamp,
             user |-> sel[i].user, text |-> sel[i].text]]

\* The limits and offsets a caller passes.
QLimits == -1..(Limit + 1)

QOffsets == 0..Limit

\* Registration, posts and successful runs: the states a query can read.
NextQuery ==
    \/ \E ch \in Channels, t \in Ts : Post(ch, t)
    \/ \E ch \in Channels : AddChannel(ch)
    \/ \E ch \in Channels : Archive(ch)
    \/ FetchOk(PlainPayloads)
    \/ Commit
    \/ Return

SpecQuery == Init /\ [][NextQuery]_vars

\* -------------------------------------------------------------- main()
\* Hours of wall-clock time the program is followed for.
MaxHours == 2

\* The channel main() registers, line 231.
MainChannel == "C1"

\* Lines 223-228: the archiver is constructed; the tables exist already or
\* are created empty.
MainConstruct ==
    /\ main.pc = "off"
    /\ main' = [main EXCEPT !.pc = "constructed"]
    /\ UNCHANGED <<slack, channels, messages, pc, cid, last_timestamp, page,
                   pre, outcome, inPass, pending, streak, run2>>

\* Line 231: add_channel_to_archive, the channel is found.
MainAddChannel ==
    /\ main.pc = "constructed"
    /\ main' = [main EXCEPT !.pc = "registered"]
    /\ channels' = InsertOrReplaceChannel(channels, MainChannel,
                                          conversations_info(MainChannel), Null)
    /\ UNCHANGED <<slack, messages, pc, cid, last_timestamp, page,
                   pre, outcome, inPass, pending, streak, run2>>

\* Line 231: conversations_info raises, add_channel_to_archive prints the
\* error and main() goes on.
MainAddChannelError ==
    /\ main.pc = "constructed"
    /\ main' = [main EXCEPT !.pc = "registered"]
    /\ UNCHANGED <<slack, channels, messages, pc, cid, last_timestamp, page,
                   pre, outcome, inPass, pending, streak, run2>>

\* Lines 234-238: the app is created and the thread is started.
MainThreadStart ==
    /\ main.pc = "registered"
    /\ main' = [main EXCEPT !.pc = "threaded"]
    /\ UNCHANGED <<slack, channels, messages, pc, cid, last_timestamp, page,
                   pre, outcome, inPass, pending, streak, run2>>

\* Line 237, the whole target of the thread:
\* schedule.every(1).hour.do(archiver.schedule_archiving) puts the job on
\* the scheduler's list, first due one hour from now.  The target returns
\* and the thread ends.
ThreadRegisterJob ==
    /\ main.pc \in {"threaded", "serving"}
    /\ main.next_run = Null
    /\ main' = [main EXCEPT !.next_run = main.now + 1]
    /\ UNCHANGED <<slack, channels, messages, pc, cid, last_timestamp, page,
                   pre, outcome, inPass, pending, streak, run2>>

\* Line 241: app.run serves requests until the process ends.
MainServe ==
    /\ main.pc = "threaded"
    /\ main' = [main EXCEPT !.pc = "serving"]
    /\ UNCHANGED <<slack, channels, messages, pc, cid, last_timestamp, page,
                   pre, outcome, inPass, pending, streak, run2>>

\* An hour passes.
Tick ==
    /\ main.pc # "off"
    /\ main.now < MaxHours
    /\ main' = [main EXCEPT !.now = main.now + 1]
    /\ UNCHANGED <<slack, channels, messages, pc, cid, last_timestamp, page,
                   pre, outcome, inPass, pending, streak, run2>>

\* schedule's test for a job to run; only schedule.run_pending() applies
\* it, and nothing in the program calls that.
should_run == main.next_run # Null /\ main.now >= main.next_run

\* The program as main() runs it; no step of it runs the jobs of the
\* scheduler.
NextMain ==
    \/ \E ch \in Channels, t \in Ts : Post(ch, t)
    \/ MainConstruct
    \/ MainAddChannel
    \/ MainAddChannelError
    \/ MainThreadStart
    \/ ThreadRegisterJob
    \/ MainServe
    \/ Tick

SpecMain == Init /\ [][NextMain]_vars

\* ------------------------------------------------------------ properties
Stored(tbl, ch, t) == \E r \in tbl : r.channel_id = ch /\ r.message_id = t

\* What the history call of the current run had to choose from.
Backlog == {t \in slack[cid] : t > OldestArg(last_timestamp)}

Finished(how) == pc = "done" /\ outcome = how

\* C1: for every registered channel whose cursor is not null, every
\* upstream message of the channel at or before the cursor is a row of
\* messages under that channel.
NoSkippedData ==
    \A ch \in DOMAIN channels :
        Cursor(channels, ch) # Null =>
            \A t \in slack[ch] : t <= Cursor(channels, ch) => Stored(messages, ch, t)

\* C2: add_channel_to_archive leaves the cursor of every channel that was
\* already registered as it was.
ReRegistrationKeepsCursor ==
    [][(pc = "idle" /\ pc' = "idle") =>
          \A ch \in DOMAIN channels :
              /\ ch \in DOMAIN channels'
              /\ Cursor(channels', ch) = Cursor(channels, ch)]_vars

\* C3: with every stored row belonging to a registered channel, no step of
\* a run of a registered channel, crash and failure included, leaves the
\* committed tables in a state other than the one before it or the one with
\* every message of the fetched page stored under the channel and the
\* cursor moved onto the page.
AtomicPageIngest ==
    [][(/\ pc # "idle"
        /\ cid \in DOMAIN channels
        /\ \A r \in messages : r.channel_id \in DOMAIN channels) =>
          \/ /\ messages' = messages
             /\ channels' = channels
          \/ /\ page # <<>>
             /\ \A i \in 1..Len(page) : Stored(messages', cid, page[i].ts)
             /\ \E i \in 1..Len(page) : Cursor(channels', cid) = page[i].ts]_vars

\* C4: no two rows of messages share (channel_id, message_id).
NoDuplication ==
    \A r1, r2 \in messages :
        (r1.channel_id = r2.channel_id /\ r1.message_id = r2.message_id) => r1 = r2

\* C4 witness: a run has committed a page holding a message its channel
\* already stored, fetched this time with another user and text.
RefetchedWithOtherContent ==
    /\ Finished("ok")
    /\ \E i \in 1..Len(page) : \E r \in pre.messages :
          /\ r.channel_id = cid
          /\ r.message_id = page[i].ts
          /\ r # Row(cid, page[i])

\* C5: a successful run leaves no channel's cursor below what it was when
\* the run started (Null is below every ts).
MonotonicCursor ==
    Finished("ok") =>
        \A ch \in DOMAIN pre.channels :
            /\ ch \in DOMAIN channels
            /\ Cursor(channels, ch) >= Cursor(pre.channels, ch)

\* C5 witness: a successful run has moved a non-null cursor.
CursorMovedOn ==
    /\ Finished("ok")
    /\ cid \in DOMAIN pre.channels
    /\ Cursor(pre.channels, cid) # Null
    /\ Cursor(channels, cid) > Cursor(pre.channels, cid)

TwoPageRun ==
    (Finished("ok") /\ cid \in DOMAIN channels /\ Cardinality(Backlog) = Limit + 1) =>
        /\ \A t \in Backlog : Stored(messages, cid, t)
        /\ Cursor(channels, cid) = SetMax(Backlog)

\* C8: inside an archive-all pass with channels still to visit, a run that
\* ends, however it ends, hands control back to the pass, and the channels
\* still to visit stay to be visited.
PassSurvivesChannelFailure ==
    [][(inPass /\ pending # {} /\ pc = "done" /\ pc' = "idle") =>
          (inPass' /\ pending' = pending)]_vars

\* C9: a run that ended in an error left messages and channels as they were
\* when it started.
StateUnchangedOnError ==
    (pc = "done" /\ outcome # "ok") => (messages = pre.messages /\ channels = pre.channels)

\* C9 witness: a run has raised a storage error with a non-empty page in
\* hand for a registered channel.
RaisedWithPageInHand ==
    /\ Finished("raised")
    /\ cid \in DOMAIN channels
    /\ Backlog # {}

\* C10: no run ends on a rate-limit error: the call is retried within the
\* run.
RateLimitRetried == ~Finished("ratelimited")

\* C11: a successful run leaves every message of its page stored under its
\* own channel, whatever rows other channels hold.
PageStoredUnderOwnChannel ==
    (/\ Finished("ok")
     /\ cid \in DOMAIN channels
     /\ \A r \in pre.messages : r.channel_id \in DOMAIN channels) =>
        \A i \in 1..Len(page) : Stored(messages, cid, page[i].ts)

\* C12: every stored message belongs to a registered channel.
StoredRowsAreRegistered ==
    \A r \in messages : r.channel_id \in DOMAIN channels

\* C13: when two runs of one channel overlap, no commit of either lowers a
\* cursor.
OverlapKeepsCursor ==
    [][((pc = "apply" /\ pc' = "done") \/ (run2.pc = "apply" /\ run2'.pc = "idle")) =>
          \A ch \in DOMAIN channels :
              Cursor(channels', ch) >= Cursor(channels, ch)]_vars

\* C14: a query returns only rows of the channel asked for, in
\* non-decreasing numeric order of timestamp.
QuerySortedOwnRows ==
    \A ch \in Channels, limit \in QLimits, offset \in QOffsets :
        LET res == get_channel_messages(ch, limit, offset)
        IN  /\ \A i \in 1..Len(res) : \E r \in messages :
                  /\ r.channel_id = ch
                  /\ res[i] = [message_id |-> r.message_id,
                               timestamp |-> r.timestamp,
                               user |-> r.user, text |-> r.text]
            /\ \A i, j \in 1..Len(res) :
                  i < j => res[i].timestamp <= res[j].timestamp

QueriedTwoOfSeveral ==
    \E ch \in Channels :
        /\ Len(get_channel_messages(ch, 2, 0)) = 2
        /\ \E r \in messages : r.channel_id # ch

ConvergedHasEverything ==
    (/\ streak = 2
     /\ \A ch \in DOMAIN channels :
           {t \in slack[ch] : t > OldestArg(Cursor(channels, ch))} = {}) =>
        \A ch \in DOMAIN channels : \A t \in slack[ch] : Stored(messages, ch, t)

\* C17: no step removes a stored message row or changes one of its fields:
\* every row of messages is a row of messages after the step.
StoredRowsStay ==
    [][messages \subseteq messages']_vars

\* C17 witness: a run has committed a page that grew the table and that
\* carried, with other content, the id of a row stored before; the row is
\* still there.
OldRowSurvivedRefetch ==
    /\ Finished("ok")
    /\ messages # pre.messages
    /\ \E i \in 1..Len(page) : \E r \in pre.messages :
          /\ r.message_id = page[i].ts
          /\ r # Row(cid, page[i])
          /\ r \in messages

\* C19: when a run has ended, however it ended, every channel other than
\* the one it archived has the channels row and the message rows it had
\* when the run started.
ChannelIsolation ==
    pc = "done" =>
        \A b \in Channels \ {cid} :
            /\ (b \in DOMAIN channels) = (b \in DOMAIN pre.channels)
            /\ b \in DOMAIN channels => channels[b] = pre.channels[b]
            /\ WhereChannel(messages, b) = WhereChannel(pre.messages, b)

\* C19 witness: a run has stored rows and moved its cursor while another
\* registered channel holds a cursor and rows of its own.
RanBesideArchivedChannel ==
    /\ Finished("ok")
    /\ cid \in DOMAIN channels
    /\ messages # pre.messages
    /\ channels # pre.channels
    /\ \E b \in DOMAIN channels \ {cid} :
          /\ Cursor(channels, b) # Null
          /\ WhereChannel(messages, b) # {}

\* C18: with main() serving and a channel registered, once the hourly job
\* has been due for over an hour it has been run.
TriggerFired ==
    (/\ main.pc = "serving"
     /\ MainChannel \in DOMAIN channels
     /\ should_run
     /\ main.now > main.next_run) =>
        main.last_run # Null

====
